---------------------------- MODULE Spec2Model ----------------------------
(***************************************************************************)
(* A model of rcpputils' dynamic-library path resolver (find_library.cpp)  *)
(* and of the filesystem helpers remove, remove_all and remove_extension   *)
(* (filesystem_helper.hpp).                                                *)
(*                                                                         *)
(* Strings are sequences of one-character strings, so that splitting,      *)
(* joining and truncating are computed character by character.             *)
(***************************************************************************)
EXTENDS Integers, Sequences, FiniteSets, TLC

VARIABLES
  platform,   \* the build's platform convention (fixed when compiling)
  environ,    \* the process environment: variable name -> value or Unset
  cwd,        \* the current working directory, as a list of components
  fs,         \* what the candidate library file is in each existing directory
  call,       \* the most recent find_library_path call, NoCall once the
              \* environment or the filesystem changed after it
  last,       \* name and result of the most recent call, kept across changes
  tree,       \* the directory tree remove / remove_all work on
  rm,         \* the most recent remove / remove_all call
  ext         \* the most recent remove_extension call

vars == <<platform, environ, cwd, fs, call, last, tree, rm, ext>>

-----------------------------------------------------------------------------
(* Bounds                                                                  *)

\* longest value of the search-path environment variable
MaxEnvLen == 3
\* longest path handed to remove_extension
MaxPathLen == 5
\* depth of the directory trees handed to remove_all
MaxDepth == 2
\* largest n_times handed to remove_extension
MaxTimes == 3

-----------------------------------------------------------------------------
(* Strings                                                                 *)

\* an unset variable: no value a string over the alphabets can take
Unset == <<"unset">>
\* call, last, rm and ext hold <<>> before the first call, <<record>> after
NoCall == <<>>

Platforms == {"windows", "apple", "linux"}

StringsOver(alphabet, n) == UNION {[1..k -> alphabet] : k \in 0..n}

\* position of the first occurrence of c in s at or after i, 0 if none
RECURSIVE IndexFrom(_, _, _)
IndexFrom(s, c, i) ==
  IF i > Len(s) THEN 0
  ELSE IF s[i] = c THEN i
  ELSE IndexFrom(s, c, i + 1)

\* std::string::find_last_of: position of the last c in s, 0 for npos
RECURSIVE find_last_of(_, _)
find_last_of(s, c) ==
  IF s = <<>> THEN 0
  ELSE IF s[Len(s)] = c THEN Len(s)
  ELSE find_last_of(SubSeq(s, 1, Len(s) - 1), c)

-----------------------------------------------------------------------------
(* Platform convention: find_library.cpp, anonymous namespace              *)

kPathVar(p) ==
  IF p = "windows" THEN "PATH"
  ELSE IF p = "apple" THEN "DYLD_LIBRARY_PATH"
  ELSE "LD_LIBRARY_PATH"

kPathSeparator(p) == IF p = "windows" THEN ";" ELSE ":"

kSolibPrefix(p) == IF p = "windows" THEN <<>> ELSE <<"l", "i", "b">>

kSolibExtension(p) ==
  IF p = "windows" THEN <<".", "d", "l", "l">>
  ELSE IF p = "apple" THEN <<".", "d", "y", "l", "i", "b">>
  ELSE <<".", "s", "o">>

\* std::filesystem::path::preferred_separator
preferred_separator(p) == IF p = "windows" THEN "\\" ELSE "/"

\* the characters the platform accepts as directory separators
IsSeparator(p, c) == c = "/" \/ (p = "windows" /\ c = "\\")

-----------------------------------------------------------------------------
(* Collaborators of find_library_path                                      *)

\* rcpputils::get_env_var: the variable's value, the empty string if unset
get_env_var(e, name) ==
  IF name \in DOMAIN e /\ e[name] # Unset THEN e[name] ELSE <<>>

\* rcpputils::split: the tokens between the delimiters, read as by
\* std::getline: no token for an empty input (or an empty remainder), an
\* empty token between consecutive delimiters
RECURSIVE split(_, _)
split(input, delim) ==
  IF input = <<>> THEN <<>>
  ELSE LET i == IndexFrom(input, delim, 1) IN
       IF i = 0 THEN <<input>>
       ELSE <<SubSeq(input, 1, i - 1)>>
              \o split(SubSeq(input, i + 1, Len(input)), delim)

\* GetCurrentDirectoryA: the working directory as a native path string
RECURSIVE NativePath(_, _)
NativePath(p, comps) ==
  IF comps = <<>> THEN <<>>
  ELSE <<preferred_separator(p)>> \o Head(comps) \o NativePath(p, Tail(comps))

GetCurrentDirectoryA(p, c) ==
  IF c = <<>> THEN <<preferred_separator(p)>> ELSE NativePath(p, c)

\* std::filesystem::path::operator/ on the native strings
PathJoin(p, dir, name) ==
  IF name # <<>> /\ IsSeparator(p, name[1]) THEN name
  ELSE IF dir = <<>> THEN name
  ELSE IF IsSeparator(p, dir[Len(dir)]) THEN dir \o name
  ELSE dir \o <<preferred_separator(p)>> \o name

\* the components of a path string: the runs of non-separator characters
RECURSIVE Components(_, _, _)
Components(p, s, acc) ==
  IF s = <<>> THEN (IF acc = <<>> THEN <<>> ELSE <<acc>>)
  ELSE IF IsSeparator(p, s[1])
       THEN (IF acc = <<>> THEN <<>> ELSE <<acc>>) \o Components(p, Tail(s), <<>>)
       ELSE Components(p, Tail(s), Append(acc, s[1]))

HasRootDirectory(p, s) == s # <<>> /\ IsSeparator(p, s[1])

\* how the operating system resolves a path string: from the root when it
\* starts with a separator, from the working directory otherwise
Resolve(p, c, s) ==
  IF HasRootDirectory(p, s) THEN Components(p, s, <<>>)
  ELSE c \o Components(p, s, <<>>)

\* The directories that exist: / and /a.  fs[d] tells what the entry named
\* like the library "x" is in directory d.
CompA == <<"a">>
FsDirs == {<<>>, <<CompA>>}
Kinds == {"none", "file", "dir", "denied"}
LibX == <<"x">>
LibNames == {LibX, <<>>}

\* the library file the directories may hold: libx.so, libx.dylib or x.dll
LibFile(p) ==
  IF p = "windows" THEN <<"x", ".", "d", "l", "l">>
  ELSE IF p = "apple" THEN <<"l", "i", "b", "x", ".", "d", "y", "l", "i", "b">>
  ELSE <<"l", "i", "b", "x", ".", "s", "o">>

\* filename = kSolibPrefix + library_name + kSolibExtension
Filename(p, library_name) == kSolibPrefix(p) \o library_name \o kSolibExtension(p)

\* stat() on a path string: "none" when a directory on the way or the entry
\* itself is missing, "denied" when the lookup fails
Stat(p, f, c, s) ==
  LET full == Resolve(p, c, s) IN
  IF full = <<>> THEN "dir"
  ELSE LET d == SubSeq(full, 1, Len(full) - 1)
           leaf == full[Len(full)]
       IN IF d \in FsDirs /\ leaf = LibFile(p) THEN f[d]
          ELSE IF full \in FsDirs THEN "dir"
          ELSE "none"

\* rcutils_is_file: true only for an existing regular file
rcutils_is_file(p, f, c, s) == Stat(p, f, c, s) = "file"

-----------------------------------------------------------------------------
(* find_library_path                                                       *)

\* mutant: the working directory is appended to the list, not inserted first
SearchPathsCwdLast(p, e, c, cwd_ok) ==
  LET search_paths == split(get_env_var(e, kPathVar(p)), kPathSeparator(p)) IN
  IF p = "windows" /\ cwd_ok
  THEN search_paths \o <<GetCurrentDirectoryA(p, c)>>
  ELSE search_paths

\* mutant: the working directory is inserted in every build
SearchPathsCwdAlways(p, e, c, cwd_ok) ==
  LET search_paths == split(get_env_var(e, kPathVar(p)), kPathSeparator(p)) IN
  IF cwd_ok
  THEN <<GetCurrentDirectoryA(p, c)>> \o search_paths
  ELSE search_paths

\* the search list: the split variable, preceded on Windows by the working
\* directory when GetCurrentDirectoryA succeeded
SearchPaths(p, e, c, cwd_ok) ==
  LET search_paths == split(get_env_var(e, kPathVar(p)), kPathSeparator(p)) IN
  IF p = "windows" /\ cwd_ok
  THEN <<GetCurrentDirectoryA(p, c)>> \o search_paths
  ELSE search_paths

\* mutant: a later match overwrites an earlier one (no early return)
RECURSIVE SearchLoopLast(_, _, _, _, _, _, _)
SearchLoopLast(p, f, c, search_paths, filename, i, probes) ==
  IF i > Len(search_paths) THEN [result |-> <<>>, probes |-> probes]
  ELSE LET path == PathJoin(p, search_paths[i], filename)
           rest == SearchLoopLast(p, f, c, search_paths, filename, i + 1,
                                  Append(probes, path))
       IN IF rcutils_is_file(p, f, c, path) /\ rest.result = <<>>
          THEN [result |-> path, probes |-> rest.probes]
          ELSE rest

\* mutant: the first match is kept but the remaining entries are probed too
RECURSIVE SearchLoopNoBreak(_, _, _, _, _, _, _)
SearchLoopNoBreak(p, f, c, search_paths, filename, i, probes) ==
  IF i > Len(search_paths) THEN [result |-> <<>>, probes |-> probes]
  ELSE LET path == PathJoin(p, search_paths[i], filename)
           rest == SearchLoopNoBreak(p, f, c, search_paths, filename, i + 1,
                                     Append(probes, path))
       IN IF rcutils_is_file(p, f, c, path)
          THEN [result |-> path, probes |-> rest.probes]
          ELSE rest

\* mutant: the last path built is returned when nothing matched
RECURSIVE SearchLoopNoEmpty(_, _, _, _, _, _, _)
SearchLoopNoEmpty(p, f, c, search_paths, filename, i, probes) ==
  IF i > Len(search_paths)
  THEN [result |-> IF probes = <<>> THEN <<>> ELSE probes[Len(probes)],
        probes |-> probes]
  ELSE LET path == PathJoin(p, search_paths[i], filename) IN
       IF rcutils_is_file(p, f, c, path)
       THEN [result |-> path, probes |-> Append(probes, path)]
       ELSE SearchLoopNoEmpty(p, f, c, search_paths, filename, i + 1,
                              Append(probes, path))

\* mutant: the bare filename is returned instead of the joined path
RECURSIVE SearchLoopFilename(_, _, _, _, _, _, _)
SearchLoopFilename(p, f, c, search_paths, filename, i, probes) ==
  IF i > Len(search_paths) THEN [result |-> <<>>, probes |-> probes]
  ELSE LET path == PathJoin(p, search_paths[i], filename) IN
       IF rcutils_is_file(p, f, c, path)
       THEN [result |-> filename, probes |-> Append(probes, path)]
       ELSE SearchLoopFilename(p, f, c, search_paths, filename, i + 1,
                               Append(probes, path))

\* mutant: a probe that fails with an error ends the search
RECURSIVE SearchLoopAbort(_, _, _, _, _, _, _)
SearchLoopAbort(p, f, c, search_paths, filename, i, probes) ==
  IF i > Len(search_paths) THEN [result |-> <<>>, probes |-> probes]
  ELSE LET path == PathJoin(p, search_paths[i], filename) IN
       IF rcutils_is_file(p, f, c, path)
       THEN [result |-> path, probes |-> Append(probes, path)]
       ELSE IF Stat(p, f, c, path) = "denied"
       THEN [result |-> <<>>, probes |-> Append(probes, path)]
       ELSE SearchLoopAbort(p, f, c, search_paths, filename, i + 1,
                            Append(probes, path))

\* the loop over search_paths from position i on; probes lists the paths
\* handed to rcutils_is_file so far
RECURSIVE SearchLoop(_, _, _, _, _, _, _)
SearchLoop(p, f, c, search_paths, filename, i, probes) ==
  IF i > Len(search_paths) THEN [result |-> <<>>, probes |-> probes]
  ELSE LET path == PathJoin(p, search_paths[i], filename) IN
       IF rcutils_is_file(p, f, c, path)
       THEN [result |-> path, probes |-> Append(probes, path)]
       ELSE SearchLoop(p, f, c, search_paths, filename, i + 1,
                       Append(probes, path))

\* mutant: the result of the previous call for the same name is remembered
find_library_path_cached(p, e, f, c, cwd_ok, library_name) ==
  LET search_paths == SearchPaths(p, e, c, cwd_ok)
      filename == Filename(p, library_name)
      r == SearchLoop(p, f, c, search_paths, filename, 1, <<>>)
  IN [name |-> library_name, cwd_ok |-> cwd_ok, paths |-> search_paths,
      result |-> IF last # NoCall /\ last[1].name = library_name
                 THEN last[1].result ELSE r.result,
      probes |-> r.probes]

find_library_path(p, e, f, c, cwd_ok, library_name) ==
  LET search_paths == SearchPaths(p, e, c, cwd_ok)
      filename == Filename(p, library_name)
      r == SearchLoop(p, f, c, search_paths, filename, 1, <<>>)
  IN [name |-> library_name, cwd_ok |-> cwd_ok, paths |-> search_paths,
      result |-> r.result, probes |-> r.probes]

-----------------------------------------------------------------------------
(* The resolver and its surroundings                                       *)

EnvAlphabet(p) == {"a", "/", kPathSeparator(p)}
Cwds == {<<>>, <<CompA>>}

NoTree == <<>>

Init ==
  /\ platform \in Platforms
  /\ environ = [v \in {kPathVar(platform)} |-> Unset]
  /\ cwd \in Cwds
  /\ fs \in [FsDirs -> Kinds]
  /\ call = NoCall
  /\ last = NoCall
  /\ tree = NoTree
  /\ rm = NoCall
  /\ ext = NoCall

\* the values the process gives the search-path variable next: it unsets
\* it, empties it, or extends its value by one character
NextEnvValues ==
  LET old == get_env_var(environ, kPathVar(platform)) IN
  {Unset, <<>>} \cup
    {Append(old, ch) : ch \in {x \in EnvAlphabet(platform) : Len(old) < MaxEnvLen}}

\* setenv / unsetenv of the search-path variable
Setenv(v) ==
  /\ environ' = [environ EXCEPT ![kPathVar(platform)] = v]
  /\ environ' # environ
  /\ call' = NoCall
  /\ UNCHANGED <<platform, cwd, fs, last, tree, rm, ext>>

\* the filesystem changes: the library file of directory d is created,
\* removed, replaced by a directory or made inaccessible
FsChange(d, k) ==
  /\ fs[d] # k
  /\ fs' = [fs EXCEPT ![d] = k]
  /\ call' = NoCall
  /\ UNCHANGED <<platform, environ, cwd, last, tree, rm, ext>>

\* the process changes its working directory
Chdir(c) ==
  /\ c # cwd
  /\ cwd' = c
  /\ call' = NoCall
  /\ UNCHANGED <<platform, environ, fs, last, tree, rm, ext>>

\* a call of find_library_path(library_name); GetCurrentDirectoryA is only
\* called, and so can only fail, in a Windows build
Call(library_name, cwd_ok) ==
  /\ platform # "windows" => cwd_ok
  /\ call' = <<find_library_path(platform, environ, fs, cwd, cwd_ok, library_name)>>
  /\ last' = <<[name |-> library_name, result |-> call'[1].result]>>
  /\ UNCHANGED <<platform, environ, cwd, fs, tree, rm, ext>>

Next ==
  \/ \E v \in NextEnvValues : Setenv(v)
  \/ \E d \in FsDirs, k \in Kinds : FsChange(d, k)
  \/ \E c \in Cwds : Chdir(c)
  \/ \E n \in LibNames, ok \in BOOLEAN : Call(n, ok)

Spec == Init /\ [][Next]_vars

-----------------------------------------------------------------------------
(* filesystem_helper.hpp: remove and remove_all                            *)
(*                                                                         *)
(* A tree maps every node (a path below and including p, as the list of    *)
(* its components) to "none", "file" or "dir".                             *)

Names == {"a", "b"}
Nodes == UNION {[1..k -> Names] : k \in 0..MaxDepth}
Front(n) == SubSeq(n, 1, Len(n) - 1)
IsPrefix(a, b) == Len(a) <= Len(b) /\ SubSeq(b, 1, Len(a)) = a

Trees ==
  {t \in [Nodes -> {"none", "file", "dir"}] :
     \A n \in Nodes : n # <<>> /\ t[n] # "none" => t[Front(n)] = "dir"}

\* readdir may list the entries of a directory in any order
Orders == {o \in [1..Cardinality(Names) -> Names] : \A i, j \in 1..Len(o) : o[i] = o[j] => i = j}

exists(t, p) == p \in Nodes /\ t[p] # "none"
is_directory(t, p) == p \in Nodes /\ t[p] = "dir"
IsEmptyDir(t, p) == \A n \in Nodes : IsPrefix(p, n) /\ n # p => t[n] = "none"
RemoveSubtree(t, p) == [n \in Nodes |-> IF IsPrefix(p, n) THEN "none" ELSE t[n]]

\* rcpputils::fs::remove = std::filesystem::remove: a file or an empty
\* directory is removed (true), a missing path is not (false), a directory
\* that is not empty makes it throw
remove(t, p) ==
  IF ~exists(t, p) THEN [tree |-> t, ret |-> FALSE, threw |-> FALSE]
  ELSE IF is_directory(t, p) /\ ~IsEmptyDir(t, p)
       THEN [tree |-> t, ret |-> FALSE, threw |-> TRUE]
       ELSE [tree |-> [t EXCEPT ![p] = "none"], ret |-> TRUE, threw |-> FALSE]

\* rcpputils::fs::remove_all delegating to std::filesystem::remove_all, whose
\* count of removed entries is converted to bool
remove_all_std(t, p) ==
  [tree |-> IF exists(t, p) THEN RemoveSubtree(t, p) ELSE t,
   ret |-> Cardinality({n \in Nodes : IsPrefix(p, n) /\ t[n] # "none"}) > 0,
   threw |-> FALSE]

\* rcpputils::fs::remove_all, Windows branch: SHFileOperation(FO_DELETE)
\* deletes the tree, or fails and reports it
remove_all_win(t, p, sh_ok) ==
  IF ~is_directory(t, p) THEN remove(t, p)
  ELSE IF sh_ok THEN [tree |-> RemoveSubtree(t, p), ret |-> TRUE, threw |-> FALSE]
  ELSE [tree |-> t, ret |-> FALSE, threw |-> FALSE]

\* rcpputils::fs::remove_all, POSIX branch: the readdir loop from entry i of
\* the listing on, then the removal of the emptied directory
RECURSIVE remove_all(_, _, _)
RECURSIVE ReaddirLoop(_, _, _, _)
ReaddirLoop(t, p, order, i) ==
  IF i > Len(order)
  THEN LET r == remove(t, p) IN
       [tree |-> r.tree, ret |-> ~exists(r.tree, p), threw |-> r.threw]
  ELSE LET sub_path == Append(p, order[i]) IN
       IF ~exists(t, sub_path) THEN ReaddirLoop(t, p, order, i + 1)
       ELSE IF is_directory(t, sub_path)
       THEN LET ra == remove_all(t, sub_path, order) IN
            IF ~ra.ret THEN [tree |-> ra.tree, ret |-> FALSE, threw |-> ra.threw]
            ELSE LET rr == remove(ra.tree, sub_path) IN
                 IF ~rr.ret
                 THEN [tree |-> rr.tree, ret |-> FALSE, threw |-> rr.threw]
                 ELSE ReaddirLoop(rr.tree, p, order, i + 1)
       ELSE LET rr == remove(t, sub_path) IN
            IF ~rr.ret
            THEN [tree |-> rr.tree, ret |-> FALSE, threw |-> rr.threw]
            ELSE ReaddirLoop(rr.tree, p, order, i + 1)

remove_all(t, p, order) ==
  IF ~is_directory(t, p) THEN remove(t, p)
  ELSE ReaddirLoop(t, p, order, 1)

InitRemove ==
  /\ platform \in Platforms
  /\ environ = [v \in {kPathVar(platform)} |-> Unset]
  /\ cwd = <<>>
  /\ fs = [d \in FsDirs |-> "none"]
  /\ call = NoCall
  /\ last = NoCall
  /\ tree \in Trees
  /\ rm = NoCall
  /\ ext = NoCall

Done(op, p, r) ==
  /\ tree' = r.tree
  /\ rm' = <<[op |-> op, p |-> p, before |-> tree, ret |-> r.ret, threw |-> r.threw]>>
  /\ UNCHANGED <<platform, environ, cwd, fs, call, last, ext>>

Remove(p) == Done("remove", p, remove(tree, p))

RemoveAllStd(p) == Done("remove_all_std", p, remove_all_std(tree, p))

RemoveAllWin(p, sh_ok) ==
  /\ platform = "windows"
  /\ Done("remove_all", p, remove_all_win(tree, p, sh_ok))

RemoveAll(p, order) ==
  /\ platform # "windows"
  /\ Done("remove_all", p, remove_all(tree, p, order))

NextRemove ==
  \/ \E p \in Nodes : Remove(p)
  \/ \E p \in Nodes : RemoveAllStd(p)
  \/ \E p \in Nodes, sh_ok \in BOOLEAN : RemoveAllWin(p, sh_ok)
  \/ \E p \in Nodes, order \in Orders : RemoveAll(p, order)

SpecRemove == InitRemove /\ [][NextRemove]_vars

-----------------------------------------------------------------------------
(* filesystem_helper.hpp: remove_extension                                 *)

\* the loop of remove_extension from iteration i on
RECURSIVE RemoveExtensionLoop(_, _, _)
RemoveExtensionLoop(new_path, i, n_times) ==
  IF ~(i < n_times) THEN new_path
  ELSE LET last_dot == find_last_of(new_path, ".") IN
       IF last_dot = 0 THEN new_path
       ELSE RemoveExtensionLoop(SubSeq(new_path, 1, last_dot - 1), i + 1, n_times)

remove_extension(file_path, n_times) == RemoveExtensionLoop(file_path, 0, n_times)

PathAlphabet == {"a", ".", "/"}

InitExt ==
  /\ platform = "linux"
  /\ environ = [v \in {kPathVar(platform)} |-> Unset]
  /\ cwd = <<>>
  /\ fs = [d \in FsDirs |-> "none"]
  /\ call = NoCall
  /\ last = NoCall
  /\ tree = NoTree
  /\ rm = NoCall
  /\ ext = NoCall

RemoveExtension(file_path, n_times) ==
  /\ ext' = <<[path |-> file_path, n_times |-> n_times,
               out |-> remove_extension(file_path, n_times)]>>
  /\ UNCHANGED <<platform, environ, cwd, fs, call, last, tree, rm>>

NextExt ==
  \E file_path \in StringsOver(PathAlphabet, MaxPathLen), n_times \in (-1)..MaxTimes :
    RemoveExtension(file_path, n_times)

SpecExt == InitExt /\ [][NextExt]_vars

-----------------------------------------------------------------------------
(* Properties of find_library_path                                         *)
(*                                                                         *)
(* call is reset by every change of the environment, the filesystem and    *)
(* the working directory, so while call # NoCall the state is the one the  *)
(* call ran in.                                                            *)

CallMade == call # NoCall

\* prefix + n + extension, written out per platform
CandidateFilename(n) ==
  IF platform = "windows" THEN n \o <<".", "d", "l", "l">>
  ELSE IF platform = "apple" THEN <<"l", "i", "b">> \o n \o <<".", "d", "y", "l", "i", "b">>
  ELSE <<"l", "i", "b">> \o n \o <<".", "s", "o">>

\* the path of the candidate file of library n under the search entry d
Under(d, n) ==
  IF d = <<>> THEN CandidateFilename(n)
  ELSE IF IsSeparator(platform, d[Len(d)]) THEN d \o CandidateFilename(n)
  ELSE d \o <<preferred_separator(platform)>> \o CandidateFilename(n)

\* the directory a search entry names
DirOf(d) == Resolve(platform, cwd, d)

\* directory d holds a regular file named like library n
HasLibrary(d, n) == n = LibX /\ DirOf(d) \in FsDirs /\ fs[DirOf(d)] = "file"

\* the existence check on entry d fails: no such directory, or no access
ProbeFails(d, n) ==
  \/ DirOf(d) \notin FsDirs
  \/ n = LibX /\ fs[DirOf(d)] = "denied"

\* the positions of the search list whose directory holds the library
Matches(c) == {i \in 1..Len(c.paths) : HasLibrary(c.paths[i], c.name)}
FirstMatch(c) == CHOOSE i \in Matches(c) : \A j \in Matches(c) : i <= j

\* C1: when some directory of the search list holds a regular file named
\* prefix + n + extension, the call returns the path of that file under the
\* first such directory, never one under a later directory.
C1_FirstMatchWins ==
  CallMade /\ Matches(call[1]) # {} =>
    LET c == call[1]
        i == FirstMatch(c)
    IN /\ c.result = Under(c.paths[i], c.name)
       /\ Resolve(platform, cwd, c.result) = DirOf(c.paths[i]) \o <<LibFile(platform)>>

\* the first two entries name different directories, both hold the library,
\* and the path under the first one was returned
C1_Witness ==
  /\ CallMade
  /\ Len(call[1].paths) >= 2
  /\ {1, 2} \subseteq Matches(call[1])
  /\ DirOf(call[1].paths[1]) # DirOf(call[1].paths[2])
  /\ call[1].result = Under(call[1].paths[1], call[1].name)
  /\ call[1].result # Under(call[1].paths[2], call[1].name)

\* C2: when no directory of the search list holds a regular file named
\* prefix + n + extension, the call returns the empty string.
C2_NotFoundIsEmpty ==
  CallMade /\ Matches(call[1]) = {} => call[1].result = <<>>

\* a non-empty search list, a directory of it holding a directory with the
\* library's name, nothing matched and the empty string came back
C2_Witness ==
  /\ CallMade
  /\ call[1].name = LibX
  /\ Len(call[1].paths) >= 2
  /\ \E i \in 1..Len(call[1].paths) :
       DirOf(call[1].paths[i]) \in FsDirs /\ fs[DirOf(call[1].paths[i])] = "dir"
  /\ Matches(call[1]) = {}
  /\ call[1].result = <<>>

\* C3 as stated: in a Windows build every call probes the working directory
\* first, before any directory of PATH, also when PATH is unset or empty.
C3_CwdAlwaysFirst ==
  CallMade /\ platform = "windows" =>
    /\ call[1].probes # <<>>
    /\ call[1].probes[1] = Under(GetCurrentDirectoryA(platform, cwd), call[1].name)

\* C3 amended: in a Windows build every call in which GetCurrentDirectoryA
\* succeeds probes the working directory first, also when PATH is unset or
\* empty, and then returns the library found there; when
\* GetCurrentDirectoryA fails only the directories of PATH are searched.
C3_CwdFirstWhenObtained ==
  CallMade /\ platform = "windows" =>
    LET c == call[1]
        here == GetCurrentDirectoryA(platform, cwd)
    IN /\ c.cwd_ok =>
            /\ c.probes # <<>>
            /\ c.probes[1] = Under(here, c.name)
            /\ Len(c.paths) = 1 + Len(split(get_env_var(environ, "PATH"), ";"))
            /\ (c.name = LibX /\ fs[cwd] = "file" => c.result = Under(here, c.name))
       /\ ~c.cwd_ok => c.paths = split(get_env_var(environ, "PATH"), ";")

\* PATH unset, the library in the working directory, and it was found
C3_Witness ==
  /\ CallMade
  /\ platform = "windows"
  /\ environ["PATH"] = Unset
  /\ call[1].cwd_ok
  /\ call[1].name = LibX
  /\ fs[cwd] = "file"
  /\ call[1].result = Under(GetCurrentDirectoryA(platform, cwd), LibX)
  /\ call[1].result # <<>>

\* the returned path names an entry that is a regular file
NamesRegularFile(r) ==
  LET full == Resolve(platform, cwd, r) IN
  /\ full # <<>>
  /\ full[Len(full)] = LibFile(platform)
  /\ SubSeq(full, 1, Len(full) - 1) \in FsDirs
  /\ fs[SubSeq(full, 1, Len(full) - 1)] = "file"

\* C4 as stated: every non-empty result is the join of a directory of the
\* search list with prefix + n + extension, is a full (rooted) filesystem
\* path, and names a regular file.
C4_ResultIsFullPath ==
  CallMade /\ call[1].result # <<>> =>
    /\ \E i \in 1..Len(call[1].paths) :
         call[1].result = Under(call[1].paths[i], call[1].name)
    /\ HasRootDirectory(platform, call[1].result)
    /\ NamesRegularFile(call[1].result)

\* C4 amended: every non-empty result is the join of a directory d of the
\* search list with prefix + n + extension and names a regular file; it is
\* a full (rooted) path exactly when d is one, and for a relative or empty d
\* it is a path relative to the working directory (the bare filename for
\* the empty entry).
C4_ResultIsJoin ==
  CallMade /\ call[1].result # <<>> =>
    /\ \E i \in 1..Len(call[1].paths) :
         /\ call[1].result = Under(call[1].paths[i], call[1].name)
         /\ HasRootDirectory(platform, call[1].result)
              <=> HasRootDirectory(platform, call[1].paths[i])
         /\ call[1].paths[i] = <<>> => call[1].result = CandidateFilename(call[1].name)
    /\ NamesRegularFile(call[1].result)

\* a library found under a rooted directory other than the root itself
C4_Witness ==
  /\ CallMade
  /\ call[1].result # <<>>
  /\ HasRootDirectory(platform, call[1].result)
  /\ Len(call[1].result) > 1 + Len(CandidateFilename(call[1].name))
  /\ NamesRegularFile(call[1].result)

\* C5: in a POSIX build, with the search-path variable unset or empty, the
\* call probes nothing and returns the empty string, whatever the
\* filesystem holds.
C5_PosixEmptyVariable ==
  CallMade /\ platform # "windows"
    /\ environ[kPathVar(platform)] \in {Unset, <<>>} =>
      /\ call[1].paths = <<>>
      /\ call[1].probes = <<>>
      /\ call[1].result = <<>>

\* the variable unset, the library present in the working directory and in
\* the root, and still nothing probed and nothing found
C5_Witness ==
  /\ CallMade
  /\ platform = "linux"
  /\ environ["LD_LIBRARY_PATH"] = Unset
  /\ call[1].name = LibX
  /\ \A d \in FsDirs : fs[d] = "file"
  /\ call[1].probes = <<>>
  /\ call[1].result = <<>>

\* C6: an existence check that fails (no such directory, no access) counts
\* as a non-match: the search goes on with the next entry and still returns
\* a match of a later entry; every call ends with a path that was probed and
\* found, or with the empty string after every entry was probed.
C6_FailedProbeIsNoMatch ==
  CallMade =>
    LET c == call[1] IN
    /\ \A i \in 1..Len(c.paths) :
         ProbeFails(c.paths[i], c.name) /\ (\A j \in 1..(i - 1) : j \notin Matches(c)) =>
           /\ Len(c.probes) >= i
           /\ c.probes[i] # c.result
           /\ (\E k \in (i + 1)..Len(c.paths) : k \in Matches(c)) => c.result # <<>>
           /\ Matches(c) = {} => Len(c.probes) = Len(c.paths)
    /\ \/ c.result = <<>> /\ Len(c.probes) = Len(c.paths)
       \/ c.result # <<>> /\ c.result = c.probes[Len(c.probes)]

\* the first entry cannot be read, a later one holds the library, found
C6_Witness ==
  /\ CallMade
  /\ Len(call[1].paths) >= 2
  /\ call[1].name = LibX
  /\ DirOf(call[1].paths[1]) \in FsDirs
  /\ fs[DirOf(call[1].paths[1])] = "denied"
  /\ 2 \in Matches(call[1])
  /\ call[1].result = Under(call[1].paths[2], LibX)

\* what a call for library n returns in the current state
Expected(n, ok) ==
  LET c == [name |-> n, paths |-> SearchPaths(platform, environ, cwd, ok)] IN
  IF Matches(c) = {} THEN <<>> ELSE Under(c.paths[FirstMatch(c)], n)

\* C7: a call leaves the environment and the filesystem as they are, its
\* result is determined by the name and the state it runs in (not by any
\* earlier call), and a call repeated in an unchanged state returns what the
\* previous one returned.
C7_Stateless ==
  [][call' # NoCall =>
       /\ platform' = platform /\ environ' = environ /\ fs' = fs /\ cwd' = cwd
       /\ call'[1].result = Expected(call'[1].name, call'[1].cwd_ok)
       /\ (call # NoCall /\ call[1].name = call'[1].name
             /\ call[1].cwd_ok = call'[1].cwd_ok
           => call'[1].result = call[1].result)]_vars

\* the state changed after a call, so that the result of that call is no
\* longer what a call for the same name has to return now
C7_Witness ==
  /\ call = NoCall
  /\ last # NoCall
  /\ last[1].result # <<>>
  /\ \A ok \in BOOLEAN : last[1].result # Expected(last[1].name, ok)

\* C10: the probes of a call are the paths of the search entries, in list
\* order, one each, up to and including the first match; with no match
\* every entry is probed once.
C10_ProbesInOrder ==
  CallMade =>
    LET c == call[1]
        k == IF Matches(c) = {} THEN Len(c.paths) ELSE FirstMatch(c)
    IN /\ Len(c.probes) = k
       /\ \A i \in 1..k : c.probes[i] = Under(c.paths[i], c.name)

\* the first match is at the second entry, a third entry was never probed
C10_Witness ==
  /\ CallMade
  /\ Len(call[1].paths) >= 3
  /\ Matches(call[1]) # {}
  /\ FirstMatch(call[1]) = 2
  /\ Len(call[1].probes) = 2
  /\ call[1].result = call[1].probes[2]

-----------------------------------------------------------------------------
(* Properties of remove_all and remove_extension                           *)

\* C8: remove_all(p) on a directory removes it with all of its content and
\* returns true; on anything else it does what remove(p) does; after a call
\* that returned true p does not exist.
C8_RemoveAllRemovesTree ==
  rm # NoCall /\ rm[1].op = "remove_all" =>
    LET r == rm[1] IN
    /\ r.before[r.p] = "dir" =>
         /\ r.ret <=> tree = RemoveSubtree(r.before, r.p)
         /\ platform # "windows" => r.ret
    /\ r.before[r.p] # "dir" =>
         r.ret = remove(r.before, r.p).ret /\ tree = remove(r.before, r.p).tree
    /\ r.ret => tree[r.p] = "none"

\* the directories of a path (up to its last slash) and the file it names
LastSlash(s) == find_last_of(s, "/")
DirPart(s) == SubSeq(s, 1, LastSlash(s))
FilePart(s) == SubSeq(s, LastSlash(s) + 1, Len(s))
Periods(s) == {i \in 1..Len(s) : s[i] = "."}
\* s cut before its k-th last period
CutAt(s, k) ==
  IF k <= 0 THEN s
  ELSE LET i == CHOOSE i \in Periods(s) : Cardinality({j \in Periods(s) : j >= i}) = k
       IN SubSeq(s, 1, i - 1)
Min(a, b) == IF a <= b THEN a ELSE b

\* C9: remove_extension(file_path, n_times) removes the last
\* min(n_times, number of periods in the file's name) extensions of the file
\* the path names and leaves the directories of the path as they are.
C9_OnlyFileExtensionsRemoved ==
  ext # NoCall =>
    LET e == ext[1]
        k == Min(e.n_times, Cardinality(Periods(FilePart(e.path))))
    IN e.out = DirPart(e.path) \o CutAt(FilePart(e.path), k)

=============================================================================
